---- MODULE Spec2Model ----
(***************************************************************************)
(* JSON Newline Formatter: the string scanner, the newline-escape locator, *)
(* the coordinate mapper, the content transformer and the edit             *)
(* synchronizer, as state machines over document text.                     *)
(*                                                                         *)
(* Text is a sequence of one-character strings.  The source indexes text   *)
(* from 0; CharAt keeps that convention so the loops read as in the code.  *)
(***************************************************************************)
EXTENDS Integers, Sequences, FiniteSets, TLC

VARIABLES
    content,            \* SpecLocate: the string content handed to the locator
    located,            \* SpecLocate: the locator's answer, or NotRun
    docText,            \* the text of each document
    version,            \* the version of each document
    languageId,         \* the language of each document
    activeEditor,       \* the document shown in the active editor, or NoDocument
    isEnabled,          \* DecorationManager.isEnabled
    currentDecorations, \* DecorationManager.currentDecorations
    documentStates,     \* EditSynchronizer.documentStates, NoState where absent
    isProcessingEdit,   \* EditSynchronizer.isProcessingEdit
    pendingEdit,        \* the workspace edit handed to applyEdit and not yet answered
    edits,              \* how many user mutations have happened
    lastEvent,          \* history: the last notification and what the handler did with it
    query,              \* the last query or call made of the core and its answers
    openDocuments,      \* the documents the workspace holds open
    disposed            \* whether deactivate() has disposed of the components

vars == <<content, located, docText, version, languageId, activeEditor, isEnabled,
          currentDecorations, documentStates, isProcessingEdit, pendingEdit, edits,
          lastEvent, query, openDocuments, disposed>>

engineVars == <<docText, version, languageId, activeEditor, isEnabled,
                currentDecorations, documentStates, isProcessingEdit, pendingEdit, edits,
                lastEvent, openDocuments, disposed>>

----------------------------------------------------------------------------
(* Characters *)

Quote == "\""
Backslash == "\\"
LineBreak == "\n"

\* text[i] of the source, i counted from 0; "" stands for undefined
CharAt(text, i) == IF i >= 0 /\ i < Len(text) THEN text[i + 1] ELSE ""

\* text.substring(from, to)
Substring(text, from, to) ==
    LET f == IF from < 0 THEN 0 ELSE IF from > Len(text) THEN Len(text) ELSE from
        t == IF to < 0 THEN 0 ELSE IF to > Len(text) THEN Len(text) ELSE to
        lo == IF f <= t THEN f ELSE t
        hi == IF f <= t THEN t ELSE f
    IN  [k \in 1..(hi - lo) |-> text[lo + k]]

\* all texts over an alphabet, up to a length
TextsUpTo(alphabet, n) == UNION {[1..k -> alphabet] : k \in 0..n}

----------------------------------------------------------------------------
(* Newline Escape Locator: JsonStringDetector.findNewlineEscapeSequences *)

\* the backward loop "while (j >= lo && text[j] === '\\') { backslashCount++; j--; }"
RECURSIVE CountBackslashes(_, _, _)
CountBackslashes(text, j, lo) ==
    IF j >= lo /\ CharAt(text, j) = Backslash
    THEN 1 + CountBackslashes(text, j - 1, lo)
    ELSE 0

\* the while loop of findNewlineEscapeSequences, from index i on
RECURSIVE FindNewlineLoop(_, _, _)
FindNewlineLoop(text, i, positions) ==
    IF i < Len(text) - 1
    THEN IF CharAt(text, i) = Backslash /\ CharAt(text, i + 1) = "n"
         THEN FindNewlineLoop(text, i + 2,
                 IF CountBackslashes(text, i - 1, 0) % 2 = 0
                 THEN Append(positions, i)
                 ELSE positions)
         ELSE FindNewlineLoop(text, i + 1, positions)
    ELSE positions

\* a locator that takes every backslash-n pair, whatever precedes it
RECURSIVE FindNewlineLoopNoParity(_, _, _)
FindNewlineLoopNoParity(text, i, positions) ==
    IF i < Len(text) - 1
    THEN IF CharAt(text, i) = Backslash /\ CharAt(text, i + 1) = "n"
         THEN FindNewlineLoopNoParity(text, i + 2, Append(positions, i))
         ELSE FindNewlineLoopNoParity(text, i + 1, positions)
    ELSE positions

findNewlineEscapeSequences_NoParity(text) == FindNewlineLoopNoParity(text, 0, <<>>)

findNewlineEscapeSequences(text) == FindNewlineLoop(text, 0, <<>>)

containsNewlines(text) == Len(findNewlineEscapeSequences(text)) > 0

countNewlinesInString(text) == Len(findNewlineEscapeSequences(text))

----------------------------------------------------------------------------
(* vscode.Position, vscode.Range and the TextDocument offset conversions *)

Position(line, character) == [line |-> line, character |-> character]

isBefore(p, q) == p.line < q.line \/ (p.line = q.line /\ p.character < q.character)

isAfter(p, q) == isBefore(q, p)

isAfterOrEqual(p, q) == ~isBefore(p, q)

Range(start, end) ==
    IF isBefore(end, start) THEN [start |-> end, end |-> start]
    ELSE [start |-> start, end |-> end]

\* Range.intersection(other) !== undefined
rangesIntersect(range, other) ==
    LET start == IF isAfter(range.start, other.start) THEN range.start ELSE other.start
        end == IF isBefore(range.end, other.end) THEN range.end ELSE other.end
    IN  ~isAfter(start, end)

\* the offsets at which the lines of the text begin
LineStarts(text) == {0} \cup {k + 1 : k \in {m \in 0..(Len(text) - 1) : CharAt(text, m) = LineBreak}}

lineCount(text) == Cardinality(LineStarts(text))

\* the offset at which line l (from 0) begins
LineStart(text, l) == CHOOSE s \in LineStarts(text) : Cardinality({t \in LineStarts(text) : t < s}) = l

\* the length of line l, its line break excluded
LineLength(text, l) ==
    LET upTo(s, later) ==
            IF later = {} THEN Len(text) - s
            ELSE (CHOOSE t \in later : \A u \in later : t <= u) - 1 - s
        from(s) == upTo(s, {t \in LineStarts(text) : t > s})
    IN  from(LineStart(text, l))

\* document.positionAt(offset): the offset is clamped to the text
positionAt(text, offset) ==
    LET onLine(o, before) ==
            Position(Cardinality(before) - 1,
                     o - (CHOOSE s \in before : \A t \in before : t <= s))
        at(o) == onLine(o, {s \in LineStarts(text) : s <= o})
    IN  at(IF offset < 0 THEN 0 ELSE IF offset > Len(text) THEN Len(text) ELSE offset)

\* document.offsetAt(position): the position is clamped to the text
offsetAt(text, p) ==
    IF p.line >= lineCount(text) THEN Len(text)
    ELSE IF p.line < 0 THEN 0
    ELSE LET clamped(len) ==
                 IF p.character < 0 THEN 0 ELSE IF p.character > len THEN len ELSE p.character
         IN  LineStart(text, p.line) + clamped(LineLength(text, p.line))

----------------------------------------------------------------------------
(* JSON.parse, as the strict grammar over the characters of the model:     *)
(* strings, arrays, objects, one-digit-run numbers, white space.  Each     *)
(* Parse operator takes the offset of a token and returns the offset after *)
(* it, or -1 when the text is not JSON there.                              *)

HexDigits == {"0", "1", "2", "3", "4", "5", "6", "7", "8", "9",
              "a", "b", "c", "d", "e", "f", "A", "B", "C", "D", "E", "F"}

Digits == {"0", "1", "2", "3", "4", "5", "6", "7", "8", "9"}

WhiteSpace == {" ", LineBreak, "\t", "\r"}

\* the characters that may follow a backslash, \u aside
SimpleEscapes == {Quote, Backslash, "/", "b", "f", "n", "r", "t"}

\* the control characters of the model: JSON.parse refuses them raw in a string
ControlChars == {LineBreak, "\t", "\r"}

isValidUnicodeEscape(hexChars) ==
    Len(hexChars) = 4 /\ \A k \in 1..4 : hexChars[k] \in HexDigits

RECURSIVE SkipWhiteSpace(_, _)
SkipWhiteSpace(text, i) ==
    IF CharAt(text, i) \in WhiteSpace THEN SkipWhiteSpace(text, i + 1) ELSE i

RECURSIVE SkipDigits(_, _)
SkipDigits(text, i) ==
    IF CharAt(text, i) \in Digits THEN SkipDigits(text, i + 1) ELSE i

\* j is inside a string literal; the offset after its closing quote, or -1
RECURSIVE ParseStringBody(_, _)
ParseStringBody(text, j) ==
    LET c == CharAt(text, j) IN
    IF j >= Len(text) THEN -1
    ELSE IF c = Quote THEN j + 1
    ELSE IF c = Backslash
         THEN IF CharAt(text, j + 1) \in SimpleEscapes THEN ParseStringBody(text, j + 2)
              ELSE IF CharAt(text, j + 1) = "u"
                      /\ isValidUnicodeEscape(Substring(text, j + 2, j + 6))
                   THEN ParseStringBody(text, j + 6)
              ELSE -1
    ELSE IF c \in ControlChars THEN -1
    ELSE ParseStringBody(text, j + 1)

RECURSIVE ParseValue(_, _)
RECURSIVE ParseElements(_, _)
RECURSIVE ParseMembers(_, _)

\* i is at the first element of an array; the offset after the closing bracket
ParseElements(text, i) ==
    LET afterSpace(k) ==
            IF CharAt(text, k) = "]" THEN k + 1
            ELSE IF CharAt(text, k) = "," THEN ParseElements(text, SkipWhiteSpace(text, k + 1))
            ELSE -1
        afterValue(v) == IF v = -1 THEN -1 ELSE afterSpace(SkipWhiteSpace(text, v))
    IN  afterValue(ParseValue(text, i))

\* i is at the first key of an object; the offset after the closing brace
ParseMembers(text, i) ==
    LET afterSpace(k) ==
            IF CharAt(text, k) = "}" THEN k + 1
            ELSE IF CharAt(text, k) = "," THEN ParseMembers(text, SkipWhiteSpace(text, k + 1))
            ELSE -1
        afterValue(v) == IF v = -1 THEN -1 ELSE afterSpace(SkipWhiteSpace(text, v))
        afterColon(colon) ==
            IF CharAt(text, colon) # ":" THEN -1
            ELSE afterValue(ParseValue(text, SkipWhiteSpace(text, colon + 1)))
        afterKey(key) == IF key = -1 THEN -1 ELSE afterColon(SkipWhiteSpace(text, key))
    IN  IF CharAt(text, i) = Quote THEN afterKey(ParseStringBody(text, i + 1)) ELSE -1

ParseValue(text, i) ==
    LET c == CharAt(text, i) IN
    IF c = Quote THEN ParseStringBody(text, i + 1)
    ELSE IF c = "[" THEN
         LET j == SkipWhiteSpace(text, i + 1) IN
         IF CharAt(text, j) = "]" THEN j + 1 ELSE ParseElements(text, j)
    ELSE IF c = "{" THEN
         LET j == SkipWhiteSpace(text, i + 1) IN
         IF CharAt(text, j) = "}" THEN j + 1 ELSE ParseMembers(text, j)
    ELSE IF c \in Digits THEN SkipDigits(text, i)
    ELSE -1

\* JSON.parse(text) does not throw
JsonParses(text) ==
    LET endsTheText(v) == v # -1 /\ SkipWhiteSpace(text, v) = Len(text)
    IN  endsTheText(ParseValue(text, SkipWhiteSpace(text, 0)))

----------------------------------------------------------------------------
(* String Scanner: JsonStringDetector.parseJsonSafely and what it calls.   *)
(* A document is passed as its text.                                       *)

isValidEscapeSequence(char) == char \in {Quote, Backslash, "/", "b", "f", "n", "r", "t", "u"}

\* the while loop of extractSingleStringRange: the offset of the closing quote, or -1
RECURSIVE FindStringEnd(_, _)
FindStringEnd(text, i) ==
    IF i < Len(text)
    THEN IF CharAt(text, i) = Backslash
         THEN IF i + 1 < Len(text)
              THEN IF CharAt(text, i + 1) = "u"
                   THEN IF i + 5 < Len(text) /\ isValidUnicodeEscape(Substring(text, i + 2, i + 6))
                        THEN FindStringEnd(text, i + 6)
                        ELSE FindStringEnd(text, i + 2)
                   ELSE IF isValidEscapeSequence(CharAt(text, i + 1))
                        THEN FindStringEnd(text, i + 2)
                        ELSE FindStringEnd(text, i + 2)
              ELSE -1
         ELSE IF CharAt(text, i) = Quote THEN i
         ELSE FindStringEnd(text, i + 1)
    ELSE -1

NoRange == [found |-> FALSE]

\* the offset of the next quote at or after i, escaped or not, or -1
RECURSIVE FindNextQuote(_, _)
FindNextQuote(text, i) ==
    IF i < Len(text)
    THEN IF CharAt(text, i) = Quote THEN i ELSE FindNextQuote(text, i + 1)
    ELSE -1

\* extractSingleStringRange closing the literal at the next quote, escaped or not
extractSingleStringRange_NoEscapes(document, text, startIndex) ==
    LET closedAt(stringEnd, stringContent) ==
            [found |-> TRUE,
             range |-> [start |-> positionAt(document, startIndex),
                        end |-> positionAt(document, stringEnd + 1),
                        content |-> stringContent,
                        hasNewlines |-> containsNewlines(stringContent)],
             nextIndex |-> stringEnd + 1]
        scannedTo(stringEnd) ==
            IF stringEnd = -1 THEN NoRange
            ELSE closedAt(stringEnd, Substring(text, startIndex + 1, stringEnd))
    IN  IF CharAt(text, startIndex) # Quote THEN NoRange
        ELSE scannedTo(FindNextQuote(text, startIndex + 1))

\* document is the text positions are taken in, text the text scanned
extractSingleStringRange(document, text, startIndex) ==
    LET closedAt(stringEnd, stringContent) ==
            [found |-> TRUE,
             range |-> [start |-> positionAt(document, startIndex),
                        end |-> positionAt(document, stringEnd + 1),
                        content |-> stringContent,
                        hasNewlines |-> containsNewlines(stringContent)],
             nextIndex |-> stringEnd + 1]
        scannedTo(stringEnd) ==
            IF stringEnd = -1 THEN NoRange
            ELSE closedAt(stringEnd, Substring(text, startIndex + 1, stringEnd))
    IN  IF CharAt(text, startIndex) # Quote THEN NoRange
        ELSE scannedTo(FindStringEnd(text, startIndex + 1))

maxFileSize == 1048576

maxStrings == 10000

\* the while loop of extractStringRangesWithLimits
RECURSIVE LimitedScanLoop(_, _, _, _)
LimitedScanLoop(document, limitedText, i, ranges) ==
    LET continueWith(stringResult) ==
            IF stringResult.found
            THEN LimitedScanLoop(document, limitedText, stringResult.nextIndex,
                                 Append(ranges, stringResult.range))
            ELSE LimitedScanLoop(document, limitedText, i + 1, ranges)
    IN  IF i < Len(limitedText)
        THEN IF CharAt(limitedText, i) = Quote
             THEN continueWith(extractSingleStringRange(document, limitedText, i))
             ELSE LimitedScanLoop(document, limitedText, i + 1, ranges)
        ELSE ranges

\* extractStringRangesWithLimits taking the cut for the end of a literal open there
extractStringRangesWithLimits_CloseAtCut(document, text, limit) ==
    LimitedScanLoop(document, Substring(text, 0, limit) \o <<Quote>>, 0, <<>>)

extractStringRangesWithLimits(document, text, limit) ==
    LimitedScanLoop(document, Substring(text, 0, limit), 0, <<>>)

\* the while loop of extractStringRangesFromValidJson; literalCap is its maxStrings
RECURSIVE ScanLoop(_, _, _, _, _)
ScanLoop(text, i, stringCount, ranges, literalCap) ==
    LET continueWith(stringResult) ==
            IF stringResult.found
            THEN ScanLoop(text, stringResult.nextIndex, stringCount + 1,
                          Append(ranges, stringResult.range), literalCap)
            ELSE ScanLoop(text, i + 1, stringCount, ranges, literalCap)
    IN  IF i < Len(text) /\ stringCount < literalCap
        THEN IF CharAt(text, i) = Quote
             THEN continueWith(extractSingleStringRange(text, text, i))
             ELSE ScanLoop(text, i + 1, stringCount, ranges, literalCap)
        ELSE ranges

\* the body of extractStringRangesFromValidJson with its two caps as parameters
extractStringRangesCapped(text, characterCap, literalCap) ==
    IF Len(text) > characterCap
    THEN extractStringRangesWithLimits(text, text, characterCap)
    ELSE ScanLoop(text, 0, 0, <<>>, literalCap)

extractStringRangesFromValidJson(text) ==
    extractStringRangesCapped(text, maxFileSize, maxStrings)

\* a scanner that extracts spans whether or not the text parses
parseJsonSafely_BestEffort(text) ==
    [isValid |-> TRUE, stringRanges |-> extractStringRangesFromValidJson(text)]

parseJsonSafely(text) ==
    IF JsonParses(text)
    THEN [isValid |-> TRUE, stringRanges |-> extractStringRangesFromValidJson(text)]
    ELSE [isValid |-> FALSE, stringRanges |-> <<>>]

findStringRanges(text) == parseJsonSafely(text).stringRanges

isPositionInRange(position, range) ==
    isAfterOrEqual(position, range.start) /\ isBefore(position, range.end)

NoStringRange == [found |-> FALSE]

\* null is NoStringRange; a range found is returned with found = TRUE
getStringRangeAtPosition(text, position) ==
    LET firstOf(stringRanges, hits) ==
            IF hits = {} THEN NoStringRange
            ELSE [found |-> TRUE,
                  range |-> stringRanges[CHOOSE k \in hits : \A m \in hits : k <= m]]
        lookIn(result) ==
            IF ~result.isValid THEN NoStringRange
            ELSE firstOf(result.stringRanges,
                         {k \in 1..Len(result.stringRanges) :
                             isPositionInRange(position, result.stringRanges[k])})
    IN  lookIn(parseJsonSafely(text))

\* the scan of findNewlinePositionsInString, between the quotes of one literal
RECURSIVE NewlinePositionsLoop(_, _, _, _, _)
NewlinePositionsLoop(text, stringRange, i, stringEndOffset, positions) ==
    IF i < stringEndOffset - 1
    THEN IF CharAt(text, i) = Backslash /\ CharAt(text, i + 1) = "n"
         THEN NewlinePositionsLoop(text, stringRange, i + 2, stringEndOffset,
                 Append(positions, [position |-> positionAt(text, i), stringRange |-> stringRange]))
         ELSE IF CharAt(text, i) = Backslash
              THEN NewlinePositionsLoop(text, stringRange, i + 2, stringEndOffset, positions)
              ELSE NewlinePositionsLoop(text, stringRange, i + 1, stringEndOffset, positions)
    ELSE positions

\* the scan of findNewlinePositionsInString moving one character past a backslash
\* that n does not follow
RECURSIVE NewlinePositionsLoopNoPairSkip(_, _, _, _, _)
NewlinePositionsLoopNoPairSkip(text, stringRange, i, stringEndOffset, positions) ==
    IF i < stringEndOffset - 1
    THEN IF CharAt(text, i) = Backslash /\ CharAt(text, i + 1) = "n"
         THEN NewlinePositionsLoopNoPairSkip(text, stringRange, i + 2, stringEndOffset,
                 Append(positions, [position |-> positionAt(text, i), stringRange |-> stringRange]))
         ELSE NewlinePositionsLoopNoPairSkip(text, stringRange, i + 1, stringEndOffset, positions)
    ELSE positions

findNewlinePositionsInString_NoPairSkip(text, stringRange) ==
    NewlinePositionsLoopNoPairSkip(text, stringRange, offsetAt(text, stringRange.start) + 1,
                                   offsetAt(text, stringRange.end) - 1, <<>>)

findNewlinePositionsInString(text, stringRange) ==
    NewlinePositionsLoop(text, stringRange, offsetAt(text, stringRange.start) + 1,
                         offsetAt(text, stringRange.end) - 1, <<>>)

\* the concatenation, in order, of f[k] for the k in 1..Len(f)
RECURSIVE Flatten(_)
Flatten(f) == IF Len(f) = 0 THEN <<>> ELSE f[1] \o Flatten(Tail(f))

extractNewlinePositions(text) ==
    LET positionsOf(result) ==
            IF ~result.isValid THEN <<>>
            ELSE Flatten([k \in 1..Len(result.stringRanges) |->
                            IF result.stringRanges[k].hasNewlines
                            THEN findNewlinePositionsInString(text, result.stringRanges[k])
                            ELSE <<>>])
    IN  positionsOf(parseJsonSafely(text))

isRealNewlineEscape(text, position, stringStart) ==
    CountBackslashes(text, position - 1, stringStart) % 2 = 0

\* the scan of findDetailedNewlinePositionsInString
RECURSIVE DetailedLoop(_, _, _, _, _, _, _)
DetailedLoop(text, stringRange, i, stringStartOffset, stringEndOffset, newlineIndex, positions) ==
    IF i < stringEndOffset - 1
    THEN IF CharAt(text, i) = Backslash
         THEN IF i + 1 < stringEndOffset
              THEN IF CharAt(text, i + 1) = "n"
                   THEN IF isRealNewlineEscape(text, i, stringStartOffset)
                        THEN DetailedLoop(text, stringRange, i + 2, stringStartOffset,
                                stringEndOffset, newlineIndex + 1,
                                Append(positions,
                                   [position |-> positionAt(text, i),
                                    endPosition |-> positionAt(text, i + 2),
                                    stringRange |-> stringRange,
                                    offset |-> i,
                                    endOffset |-> i + 2,
                                    indexInString |-> newlineIndex,
                                    beforeText |-> Substring(text, stringStartOffset, i),
                                    afterText |-> Substring(text, i + 2, stringEndOffset)]))
                        ELSE DetailedLoop(text, stringRange, i + 2, stringStartOffset,
                                stringEndOffset, newlineIndex, positions)
                   ELSE IF CharAt(text, i + 1) = "u"
                        THEN IF i + 5 < stringEndOffset
                                /\ isValidUnicodeEscape(Substring(text, i + 2, i + 6))
                             THEN DetailedLoop(text, stringRange, i + 6, stringStartOffset,
                                     stringEndOffset, newlineIndex, positions)
                             ELSE DetailedLoop(text, stringRange, i + 2, stringStartOffset,
                                     stringEndOffset, newlineIndex, positions)
                        ELSE DetailedLoop(text, stringRange, i + 2, stringStartOffset,
                                stringEndOffset, newlineIndex, positions)
              ELSE DetailedLoop(text, stringRange, i + 1, stringStartOffset,
                      stringEndOffset, newlineIndex, positions)
         ELSE DetailedLoop(text, stringRange, i + 1, stringStartOffset,
                 stringEndOffset, newlineIndex, positions)
    ELSE positions

\* findDetailedNewlinePositionsInString numbering the occurrences from 1
findDetailedNewlinePositionsInString_FromOne(text, stringRange) ==
    LET scan(stringStartOffset, stringEndOffset) ==
            DetailedLoop(text, stringRange, stringStartOffset, stringStartOffset,
                         stringEndOffset, 1, <<>>)
    IN  scan(offsetAt(text, stringRange.start) + 1, offsetAt(text, stringRange.end) - 1)

findDetailedNewlinePositionsInString(text, stringRange) ==
    LET scan(stringStartOffset, stringEndOffset) ==
            DetailedLoop(text, stringRange, stringStartOffset, stringStartOffset,
                         stringEndOffset, 0, <<>>)
    IN  scan(offsetAt(text, stringRange.start) + 1, offsetAt(text, stringRange.end) - 1)

getDetailedNewlinePositions(text) ==
    LET positionsOf(result) ==
            IF ~result.isValid THEN <<>>
            ELSE Flatten([k \in 1..Len(result.stringRanges) |->
                            IF result.stringRanges[k].hasNewlines
                            THEN findDetailedNewlinePositionsInString(text, result.stringRanges[k])
                            ELSE <<>>])
    IN  positionsOf(parseJsonSafely(text))

\* str.split('\\n'): the pieces between the backslash-n pairs, matched left to right
RECURSIVE SplitLoop(_, _, _, _)
SplitLoop(str, i, piece, pieces) ==
    IF i >= Len(str) THEN Append(pieces, piece)
    ELSE IF CharAt(str, i) = Backslash /\ CharAt(str, i + 1) = "n"
         THEN SplitLoop(str, i + 2, <<>>, Append(pieces, piece))
         ELSE SplitLoop(str, i + 1, Append(piece, CharAt(str, i)), pieces)

SplitOnEscape(str) == SplitLoop(str, 0, <<>>, <<>>)

\* (str.match(/\\n/g) || []).length
CountEscapeMatches(str) == Len(SplitOnEscape(str)) - 1

calculateVisualPosition(text, newlinePosition) ==
    LET info(stringContent, lines, currentLineIndex, currentLineContent) ==
            [visualLine |-> currentLineIndex,
             visualCharacter |-> Len(currentLineContent),
             totalVisualLines |-> Len(lines),
             currentLineContent |-> currentLineContent,
             isLastNewlineInString |->
                newlinePosition.indexInString = countNewlinesInString(stringContent) - 1]
        onLine(stringContent, lines, linesBeforeThisNewline) ==
            info(stringContent, lines, linesBeforeThisNewline,
                 IF linesBeforeThisNewline + 1 <= Len(lines)
                 THEN lines[linesBeforeThisNewline + 1] ELSE <<>>)
    IN  onLine(newlinePosition.stringRange.content,
               SplitOnEscape(newlinePosition.stringRange.content),
               CountEscapeMatches(newlinePosition.beforeText))

----------------------------------------------------------------------------
(* Content Transformer: EditSynchronizer.transformVisualContentToActual    *)
(* and transformActualContentToVisual                                      *)

\* visualContent.replace(/\n/g, '\\n')
ReplaceLineBreaks(str) ==
    Flatten([k \in 1..Len(str) |->
                IF str[k] = LineBreak THEN <<Backslash, "n">> ELSE <<str[k]>>])

\* actualContent.replace(/\\n/g, '\n'): every backslash-n pair, matched left to right
RECURSIVE ReplaceEscapesLoop(_, _, _)
ReplaceEscapesLoop(str, i, out) ==
    IF i >= Len(str) THEN out
    ELSE IF CharAt(str, i) = Backslash /\ CharAt(str, i + 1) = "n"
         THEN ReplaceEscapesLoop(str, i + 2, Append(out, LineBreak))
         ELSE ReplaceEscapesLoop(str, i + 1, Append(out, CharAt(str, i)))

ReplaceEscapes(str) == ReplaceEscapesLoop(str, 0, <<>>)

\* a transformer that forgets to convert
transformVisualContentToActual_Identity(text, visualContent, range) == visualContent

transformVisualContentToActual(text, visualContent, range) ==
    IF ~getStringRangeAtPosition(text, range.start).found
    THEN visualContent
    ELSE ReplaceLineBreaks(visualContent)

transformActualContentToVisual(text, actualContent, range) ==
    IF ~getStringRangeAtPosition(text, range.start).found
    THEN actualContent
    ELSE ReplaceEscapes(actualContent)

\* document.getText(range)
getText(text, range) == Substring(text, offsetAt(text, range.start), offsetAt(text, range.end))

----------------------------------------------------------------------------
(* Coordinate Mapper: EditSynchronizer.transformActualToVisual and         *)
(* transformVisualToActual, without their call of ensureDocumentState,     *)
(* which the actions make                                                  *)

\* the for loop of transformActualToVisual over newlinePositions[k..]
RECURSIVE ActualToVisualLoop(_, _, _, _, _)
ActualToVisualLoop(newlinePositions, k, actualOffset, visualLine, visualCharacter) ==
    IF k > Len(newlinePositions) THEN [line |-> visualLine, character |-> visualCharacter]
    ELSE LET newlinePos == newlinePositions[k] IN
         IF newlinePos.offset < actualOffset /\ newlinePos.offset + 2 <= actualOffset
         THEN ActualToVisualLoop(newlinePositions, k + 1, actualOffset, visualLine + 1,
                                 actualOffset - (newlinePos.offset + 2))
         ELSE ActualToVisualLoop(newlinePositions, k + 1, actualOffset, visualLine,
                                 visualCharacter)

\* a mapper that counts an occurrence only when it ends strictly before the target
RECURSIVE ActualToVisualLoopStrict(_, _, _, _, _)
ActualToVisualLoopStrict(newlinePositions, k, actualOffset, visualLine, visualCharacter) ==
    IF k > Len(newlinePositions) THEN [line |-> visualLine, character |-> visualCharacter]
    ELSE LET newlinePos == newlinePositions[k] IN
         IF newlinePos.offset + 2 < actualOffset
         THEN ActualToVisualLoopStrict(newlinePositions, k + 1, actualOffset, visualLine + 1,
                                       actualOffset - (newlinePos.offset + 2))
         ELSE ActualToVisualLoopStrict(newlinePositions, k + 1, actualOffset, visualLine,
                                       visualCharacter)

transformActualToVisual_Strict(text, actualPosition) ==
    LET clamp(r) == Position(r.line, IF r.character < 0 THEN 0 ELSE r.character)
        over(newlinePositions) ==
            IF Len(newlinePositions) = 0 THEN actualPosition
            ELSE clamp(ActualToVisualLoopStrict(newlinePositions, 1,
                                                offsetAt(text, actualPosition),
                                                actualPosition.line, actualPosition.character))
    IN  over(getDetailedNewlinePositions(text))

transformActualToVisual(text, actualPosition) ==
    LET clamp(r) == Position(r.line, IF r.character < 0 THEN 0 ELSE r.character)
        over(newlinePositions) ==
            IF Len(newlinePositions) = 0 THEN actualPosition
            ELSE clamp(ActualToVisualLoop(newlinePositions, 1, offsetAt(text, actualPosition),
                                          actualPosition.line, actualPosition.character))
    IN  over(getDetailedNewlinePositions(text))

calculateVisualPositionForNewline(text, newlinePos) ==
    LET from(visualInfo) ==
            Position(newlinePos.position.line + visualInfo.visualLine,
                     visualInfo.visualCharacter)
    IN  from(calculateVisualPosition(text, newlinePos))

\* the for loop of transformVisualToActual over newlinePositions[k..]
RECURSIVE VisualToActualLoop(_, _, _, _, _, _)
VisualToActualLoop(text, newlinePositions, k, visualPosition, actualLine, cumulativeOffset) ==
    LET step(newlinePos, newlineVisualPos) ==
            IF newlineVisualPos.line < visualPosition.line
            THEN VisualToActualLoop(text, newlinePositions, k + 1, visualPosition,
                                    newlinePos.position.line, cumulativeOffset + 2)
            ELSE IF newlineVisualPos.line = visualPosition.line
                    /\ newlineVisualPos.character <= visualPosition.character
                 THEN VisualToActualLoop(text, newlinePositions, k + 1, visualPosition,
                                         actualLine, cumulativeOffset + 2)
                 ELSE VisualToActualLoop(text, newlinePositions, k + 1, visualPosition,
                                         actualLine, cumulativeOffset)
    IN  IF k > Len(newlinePositions)
        THEN [actualLine |-> actualLine, cumulativeOffset |-> cumulativeOffset]
        ELSE step(newlinePositions[k],
                  calculateVisualPositionForNewline(text, newlinePositions[k]))

transformVisualToActual(text, visualPosition) ==
    LET at(actualOffset) == positionAt(text, IF actualOffset < 0 THEN 0 ELSE actualOffset)
        after(r) == at(offsetAt(text, Position(r.actualLine, visualPosition.character))
                       + r.cumulativeOffset)
        over(newlinePositions) ==
            IF Len(newlinePositions) = 0 THEN visualPosition
            ELSE after(VisualToActualLoop(text, newlinePositions, 1, visualPosition,
                                          visualPosition.line, 0))
    IN  over(getDetailedNewlinePositions(text))

----------------------------------------------------------------------------
(* DecorationManager.  Its state is the list currentDecorations and the    *)
(* flag isEnabled; the operators take them and the active editor's         *)
(* document as arguments and return the new list.                          *)

NoDocument == "none"

createDecorationForNewline(newlinePos) ==
    [range |-> Range(newlinePos.position, newlinePos.endPosition),
     renderText |-> LineBreak,
     isActive |-> TRUE]

\* applyDecorations without its call of clearDecorations
applyDecorations_NoClear(decorations, enabled, editorDocument, document, text) ==
    IF ~enabled THEN decorations
    ELSE IF editorDocument = NoDocument \/ editorDocument # document THEN decorations
    ELSE LET decorate(newlinePositions) ==
                 [k \in 1..Len(newlinePositions) |->
                     createDecorationForNewline(newlinePositions[k])]
         IN  decorations \o decorate(getDetailedNewlinePositions(text))

applyDecorations(decorations, enabled, editorDocument, document, text) ==
    IF ~enabled THEN decorations
    ELSE IF editorDocument = NoDocument \/ editorDocument # document THEN decorations
    ELSE LET decorate(newlinePositions) ==
                 [k \in 1..Len(newlinePositions) |->
                     createDecorationForNewline(newlinePositions[k])]
         IN  decorate(getDetailedNewlinePositions(text))

updateDecorations(decorations, enabled, editorDocument, document, text) ==
    IF ~enabled THEN decorations
    ELSE applyDecorations(decorations, enabled, editorDocument, document, text)

\* currentDecorations after clearDecorations()
clearDecorations(decorations) == <<>>

\* setEnabled(false) leaving the decorations in place
setEnabled_KeepOnDisable(decorations, enabled, editorDocument, text, languages) ==
    IF enabled /\ editorDocument # NoDocument /\ languages[editorDocument] \in {"json", "jsonc"}
    THEN applyDecorations(decorations, enabled, editorDocument, editorDocument, text)
    ELSE decorations

\* currentDecorations after setEnabled(enabled); text is the editor's document's
setEnabled(decorations, enabled, editorDocument, text, languages) ==
    IF ~enabled THEN clearDecorations(decorations)
    ELSE IF editorDocument # NoDocument /\ languages[editorDocument] \in {"json", "jsonc"}
    THEN applyDecorations(decorations, enabled, editorDocument, editorDocument, text)
    ELSE decorations

\* currentDecorations after refresh()
refresh(decorations, enabled, editorDocument, text, languages) ==
    IF editorDocument # NoDocument /\ languages[editorDocument] \in {"json", "jsonc"}
    THEN applyDecorations(decorations, enabled, editorDocument, editorDocument, text)
    ELSE decorations

getDecorationsInRange(decorations, range) ==
    SelectSeq(decorations, LAMBDA decoration :
        decoration.isActive /\ rangesIntersect(range, decoration.range))

getActiveDecorationCount(decorations) ==
    Len(SelectSeq(decorations, LAMBDA decoration : decoration.isActive))

----------------------------------------------------------------------------
(* Clipboard handlers of EditSynchronizer *)

isSelectionInDecoratedArea(decorations, selection) ==
    Len(getDecorationsInRange(decorations, selection)) > 0

handleCopyOperation(decorations, text, selection) ==
    LET copy(selectedText) ==
            IF isSelectionInDecoratedArea(decorations, selection)
            THEN transformActualContentToVisual(text, selectedText, selection)
            ELSE selectedText
    IN  copy(getText(text, selection))

handlePasteOperation(text, position, clipboardText) ==
    LET paste(isInDecoratedArea) ==
            IF isInDecoratedArea
            THEN transformVisualContentToActual(text, clipboardText, Range(position, position))
            ELSE clipboardText
        within(stringRange) == paste(stringRange.found /\ stringRange.range.hasNewlines)
    IN  within(getStringRangeAtPosition(text, position))

----------------------------------------------------------------------------
(* EditSynchronizer: document state and the change handler.  The operators *)
(* read the unprimed state and return the values the handler leaves.       *)

Documents == {"A", "B"}

\* isJsonDocument accepting every language
isJsonDocument_AnyLanguage(document) == languageId[document] \in {"json", "jsonc", "plaintext"}

isJsonDocument(document) == languageId[document] \in {"json", "jsonc"}

NoState == [tracked |-> FALSE]

NoEdit == [submitted |-> FALSE]

\* calculateInitialMappings without the step of cumulativeOffset
calculateInitialMappings_NoCumulative(text) ==
    LET mappingsOf(newlinePositions) ==
            [k \in 1..Len(newlinePositions) |->
                [visualPosition |-> newlinePositions[k].position,
                 actualPosition |-> newlinePositions[k].position,
                 offset |-> 0]]
    IN  mappingsOf(getDetailedNewlinePositions(text))

\* the for loop of calculateInitialMappings
calculateInitialMappings(text) ==
    LET mappingsOf(newlinePositions) ==
            [k \in 1..Len(newlinePositions) |->
                [visualPosition |-> Position(newlinePositions[k].position.line + 2 * (k - 1),
                                             newlinePositions[k].position.character),
                 actualPosition |-> newlinePositions[k].position,
                 offset |-> 2 * (k - 1)]]
    IN  mappingsOf(getDetailedNewlinePositions(text))

initializeDocumentState(text, ver) ==
    [tracked |-> TRUE,
     originalContent |-> text,
     visualContent |-> text,
     mappings |-> calculateInitialMappings(text),
     version |-> ver]

\* the new documentStates after ensureDocumentState(document)
ensureDocumentState(states, document, text, ver) ==
    IF isJsonDocument(document) /\ ~states[document].tracked
    THEN [states EXCEPT ![document] = initializeDocumentState(text, ver)]
    ELSE states

\* what getDocumentState(document) returns, NoState standing for null
getDocumentState(document) ==
    ensureDocumentState(documentStates, document, docText[document], version[document])[document]

\* the new documentStates after cleanupDocumentState(document)
cleanupDocumentState(states, document) == [states EXCEPT ![document] = NoState]

\* the new documentStates after dispose()
dispose(states) == [d \in Documents |-> NoState]

\* the new documentStates after updateDocumentState(document)
updateDocumentState(states, document, text, ver) ==
    IF states[document].tracked
    THEN [states EXCEPT ![document].originalContent = text,
                        ![document].version = ver,
                        ![document].mappings = calculateInitialMappings(text)]
    ELSE [states EXCEPT ![document] = initializeDocumentState(text, ver)]

\* str.includes('\n')
includesLineBreak(str) == \E k \in 1..Len(str) : str[k] = LineBreak

\* str.includes('\\n')
includesEscape(str) == \E k \in 1..(Len(str) - 1) : str[k] = Backslash /\ str[k + 1] = "n"

\* the workspace edit convertLineBreaksToEscapeSequences hands to applyEdit, or NoEdit
convertLineBreaksToEscapeSequences(document, text, ver, change) ==
    LET replaceBy(convertedText) ==
            IF convertedText # change.text
            THEN [submitted |-> TRUE, document |-> document, range |-> change.range,
                  newText |-> convertedText, version |-> ver, answered |-> FALSE]
            ELSE NoEdit
    IN  replaceBy(transformVisualContentToActual(text, change.text, change.range))

handleDecoratedAreaEdit(document, text, ver, change) ==
    IF ~getStringRangeAtPosition(text, change.range.start).found THEN NoEdit
    ELSE IF includesLineBreak(change.text) /\ ~includesEscape(change.text)
         THEN convertLineBreaksToEscapeSequences(document, text, ver, change)
         ELSE NoEdit

processContentChange(document, text, ver, change) ==
    IF Len(getDecorationsInRange(currentDecorations, change.range)) > 0
    THEN handleDecoratedAreaEdit(document, text, ver, change)
    ELSE NoEdit

\* the handler without its first test, the one on isProcessingEdit
onDidChangeTextDocument_NoGuard(document, text, ver, change) ==
    LET untouched(path) ==
            [path |-> path,
             documentStates |-> documentStates,
             currentDecorations |-> currentDecorations,
             isProcessingEdit |-> isProcessingEdit,
             pendingEdit |-> pendingEdit]
        processed(counterEdit) ==
            [path |-> "processed",
             documentStates |->
                 updateDocumentState(ensureDocumentState(documentStates, document, text, ver),
                                     document, text, ver),
             currentDecorations |->
                 updateDecorations(currentDecorations, isEnabled, activeEditor, document, text),
             isProcessingEdit |-> isProcessingEdit \/ counterEdit.submitted,
             pendingEdit |-> IF counterEdit.submitted THEN counterEdit ELSE pendingEdit]
    IN  IF ~isJsonDocument(document) THEN untouched("skippedNotJson")
        ELSE IF ~parseJsonSafely(text).isValid THEN untouched("skippedInvalidJson")
        ELSE processed(processContentChange(document, text, ver, change))

\* what the handler leaves: path names the return it took
onDidChangeTextDocument(document, text, ver, change) ==
    LET untouched(path) ==
            [path |-> path,
             documentStates |-> documentStates,
             currentDecorations |-> currentDecorations,
             isProcessingEdit |-> isProcessingEdit,
             pendingEdit |-> pendingEdit]
        processed(counterEdit) ==
            [path |-> "processed",
             documentStates |->
                 updateDocumentState(ensureDocumentState(documentStates, document, text, ver),
                                     document, text, ver),
             currentDecorations |->
                 updateDecorations(currentDecorations, isEnabled, activeEditor, document, text),
             isProcessingEdit |-> counterEdit.submitted,
             pendingEdit |-> IF counterEdit.submitted THEN counterEdit ELSE pendingEdit]
    IN  IF isProcessingEdit THEN untouched("skippedProcessingEdit")
        ELSE IF ~isJsonDocument(document) THEN untouched("skippedNotJson")
        ELSE IF ~parseJsonSafely(text).isValid THEN untouched("skippedInvalidJson")
        ELSE processed(processContentChange(document, text, ver, change))

isSynchronizationActive == ~isProcessingEdit

\* the text after the editor applies a replacement of range by newText
ApplyChange(text, range, newText) ==
    Substring(text, 0, offsetAt(text, range.start))
        \o newText
        \o Substring(text, offsetAt(text, range.end), Len(text))

----------------------------------------------------------------------------
(* SpecLocate: the locator applied to every bounded string content *)

MaxContentLen == 6

ContentAlphabet == {Backslash, "n", "a"}

NotRun == [op |-> "none"]

\* the engine at rest, for the specifications that only exercise pure functions
EngineAtRest ==
    /\ docText = [d \in Documents |-> <<>>]
    /\ version = [d \in Documents |-> 1]
    /\ languageId = [d \in Documents |-> "json"]
    /\ activeEditor = NoDocument
    /\ isEnabled = TRUE
    /\ currentDecorations = <<>>
    /\ documentStates = [d \in Documents |-> NoState]
    /\ isProcessingEdit = FALSE
    /\ pendingEdit = NoEdit
    /\ edits = 0
    /\ lastEvent = [kind |-> "none"]
    /\ openDocuments = Documents
    /\ disposed = FALSE

InitLocate ==
    /\ content \in TextsUpTo(ContentAlphabet, MaxContentLen)
    /\ located = NotRun
    /\ query = NotRun
    /\ EngineAtRest

Locate ==
    /\ located = NotRun
    /\ located' = [op |-> "locate",
                   positions |-> findNewlineEscapeSequences(content),
                   contains |-> containsNewlines(content)]
    /\ UNCHANGED <<content, query>>
    /\ UNCHANGED engineVars

NextLocate == Locate

SpecLocate == InitLocate /\ [][NextLocate]_vars

----------------------------------------------------------------------------
(* Spec: the extension at work on open documents.  The extension host is   *)
(* single-threaded: a change to a document and the run of the change       *)
(* handler on it are one step; applyEdit is answered in a later step and   *)
(* its then-callback runs in a step after that.                            *)

MaxEdits == 2

MaxReplaceLen == 1

MaxDocLen == 8

\* ["\n"]
DocOneEscape == <<"[", Quote, Backslash, "n", Quote, "]">>

\* ["a"]
DocNoEscape == <<"[", Quote, "a", Quote, "]">>

InitialDocs == {DocOneEscape}

\* what a user mutation inserts: nothing (a deletion), a line break, or a quote
\* and a line break (put over a closing quote, it moves the line break out of
\* the literal's text while the range still starts inside the literal)
InsertTexts == {<<>>, <<LineBreak>>, <<Quote, LineBreak>>}

\* the decorations activate() leaves for the editor's document
InitialDecorations(editorDocument, texts, languages) ==
    IF editorDocument # NoDocument /\ languages[editorDocument] \in {"json", "jsonc"}
    THEN applyDecorations(<<>>, TRUE, editorDocument, editorDocument, texts[editorDocument])
    ELSE <<>>

Init ==
    /\ content = <<>>
    /\ located = NotRun
    /\ query = NotRun
    /\ docText \in {[d \in Documents |-> IF d = "A" THEN a ELSE DocNoEscape] : a \in InitialDocs}
    /\ version = [d \in Documents |-> 1]
    /\ languageId \in {[d \in Documents |-> IF d = "A" THEN "json" ELSE l] : l \in {"json", "plaintext"}}
    /\ activeEditor \in Documents \cup {NoDocument}
    /\ isEnabled = TRUE
    /\ currentDecorations = InitialDecorations(activeEditor, docText, languageId)
    /\ documentStates = [d \in Documents |-> NoState]
    /\ isProcessingEdit = FALSE
    /\ pendingEdit = NoEdit
    /\ edits = 0
    /\ lastEvent = [kind |-> "none"]
    /\ openDocuments = Documents
    /\ disposed = FALSE

\* the user replaces the characters from offset s to offset e of document d by t;
\* the document changes and the change handler runs on it.  lastEvent records the
\* mutation, the return the handler took, and whether the document was shown in
\* the active editor with its decorations up to date when the mutation came
UserChange(d, s, e, t) ==
    /\ d \in openDocuments /\ ~disposed
    /\ edits < MaxEdits
    /\ s <= e /\ e <= Len(docText[d]) /\ e - s <= MaxReplaceLen
    /\ ~(s = e /\ t = <<>>)
    /\ Len(docText[d]) - (e - s) + Len(t) <= MaxDocLen
    /\ \E change \in {[range |-> Range(positionAt(docText[d], s), positionAt(docText[d], e)),
                         text |-> t]} :
       \E newText \in {ApplyChange(docText[d], change.range, t)} :
       \E after \in {onDidChangeTextDocument(d, newText, version[d] + 1, change)} :
           /\ docText' = [docText EXCEPT ![d] = newText]
           /\ version' = [version EXCEPT ![d] = @ + 1]
           /\ documentStates' = after.documentStates
           /\ currentDecorations' = after.currentDecorations
           /\ isProcessingEdit' = after.isProcessingEdit
           /\ pendingEdit' = after.pendingEdit
           /\ lastEvent' = [kind |-> "user", document |-> d, change |-> change,
                            startOffset |-> s, endOffset |-> e,
                            textBefore |-> docText[d],
                            decoratedBefore |->
                                /\ activeEditor = d
                                /\ currentDecorations
                                      = applyDecorations(<<>>, TRUE, d, d, docText[d]),
                            path |-> after.path,
                            submitted |-> after.pendingEdit # pendingEdit]
    /\ edits' = edits + 1
    /\ UNCHANGED <<languageId, activeEditor, isEnabled, content, located, query,
                   openDocuments, disposed>>

\* applyEdit applies the pending counter-edit: the document changes, the change
\* handler runs on it (unless its listener has been disposed of), and the promise
\* is about to resolve
ApplyEditApplied ==
    /\ pendingEdit.submitted /\ ~pendingEdit.answered
    /\ pendingEdit.version = version[pendingEdit.document]
    /\ pendingEdit.document \in openDocuments
    /\ \E d \in {pendingEdit.document} :
       \E change \in {[range |-> pendingEdit.range, text |-> pendingEdit.newText]} :
       \E newText \in {ApplyChange(docText[d], pendingEdit.range, pendingEdit.newText)} :
       \E after \in {IF disposed
                      THEN [path |-> "notDelivered",
                            documentStates |-> documentStates,
                            currentDecorations |-> currentDecorations,
                            isProcessingEdit |-> isProcessingEdit,
                            pendingEdit |-> pendingEdit]
                      ELSE onDidChangeTextDocument(d, newText, version[d] + 1, change)} :
           /\ docText' = [docText EXCEPT ![d] = newText]
           /\ version' = [version EXCEPT ![d] = @ + 1]
           /\ documentStates' = after.documentStates
           /\ currentDecorations' = after.currentDecorations
           /\ isProcessingEdit' = after.isProcessingEdit
           /\ pendingEdit' = [after.pendingEdit EXCEPT !.answered = TRUE]
           /\ lastEvent' = [kind |-> "counterEdit", document |-> d, change |-> change,
                            textBefore |-> docText[d], path |-> after.path,
                            submitted |-> after.pendingEdit # pendingEdit]
    /\ UNCHANGED <<languageId, activeEditor, isEnabled, edits, content, located, query,
                   openDocuments, disposed>>

\* applyEdit resolves without applying the edit (the document changed meanwhile,
\* or the editor refuses it)
ApplyEditNotApplied ==
    /\ pendingEdit.submitted /\ ~pendingEdit.answered
    /\ pendingEdit' = [pendingEdit EXCEPT !.answered = TRUE]
    /\ UNCHANGED <<docText, version, languageId, activeEditor, isEnabled, currentDecorations,
                   documentStates, isProcessingEdit, edits, lastEvent, content, located, query,
                   openDocuments, disposed>>

\* the promise of applyEdit rejects: the then-callback never runs
ApplyEditFails ==
    /\ pendingEdit.submitted /\ ~pendingEdit.answered
    /\ pendingEdit' = NoEdit
    /\ UNCHANGED <<docText, version, languageId, activeEditor, isEnabled, currentDecorations,
                   documentStates, isProcessingEdit, edits, lastEvent, content, located, query,
                   openDocuments, disposed>>

\* the then-callback of applyEdit: the flag is cleared and the cursor is moved,
\* which calls transformActualToVisual and so ensureDocumentState
ApplyEditCallback ==
    /\ pendingEdit.submitted /\ pendingEdit.answered
    /\ isProcessingEdit' = FALSE
    /\ pendingEdit' = NoEdit
    /\ documentStates' =
          IF activeEditor = pendingEdit.document
          THEN ensureDocumentState(documentStates, pendingEdit.document,
                                   docText[pendingEdit.document], version[pendingEdit.document])
          ELSE documentStates
    /\ UNCHANGED <<docText, version, languageId, activeEditor, isEnabled, currentDecorations,
                   edits, lastEvent, content, located, query,
                   openDocuments, disposed>>

\* onDidChangeActiveTextEditor of the extension: another editor, or none, becomes active
ChangeActiveEditor(e) ==
    /\ e # activeEditor
    /\ e = NoDocument \/ e \in openDocuments
    /\ activeEditor' = e
    /\ currentDecorations' =
          IF ~disposed /\ e # NoDocument /\ isJsonDocument(e)
          THEN applyDecorations(currentDecorations, isEnabled, e, e, docText[e])
          ELSE currentDecorations
    /\ UNCHANGED <<docText, version, languageId, isEnabled, documentStates, isProcessingEdit,
                   pendingEdit, edits, lastEvent, content, located, query,
                   openDocuments, disposed>>

Next ==
    \/ \E d \in Documents : \E s \in 0..MaxDocLen : \E e \in 0..MaxDocLen :
          \E t \in InsertTexts : UserChange(d, s, e, t)
    \/ ApplyEditApplied
    \/ ApplyEditNotApplied
    \/ ApplyEditFails
    \/ ApplyEditCallback
    \/ \E e \in Documents \cup {NoDocument} : ChangeActiveEditor(e)

Spec == Init /\ [][Next]_vars

----------------------------------------------------------------------------
(* SpecDoc: one call of the detector, the transformer, the clipboard       *)
(* handlers or the mapper on document A, for every document of a bounded   *)
(* family: one array of one string literal, on the first or on the second  *)
(* line, with every content over the alphabet, valid JSON or not, and a    *)
(* few documents of two literals.                                          *)

MaxDocContentLen == 4

DocPrefixes == {<<"[">>, <<"[", LineBreak>>}

\* ["\n",LF"a"], {"a":"\n"}, ["\\n\n"] and {"\"":"\\"}: two literals on two lines,
\* a key and a value, an escaped backslash before an n in a literal that holds a
\* newline escape, and an escaped quote in a key with an escaped backslash before
\* the closing quote of a value; and ["\n","\n"], two literals with an escape each
ExtraDocs ==
    {<<"[", Quote, Backslash, "n", Quote, ",", LineBreak, Quote, "a", Quote, "]">>,
     <<"{", Quote, "a", Quote, ":", Quote, Backslash, "n", Quote, "}">>,
     <<"[", Quote, Backslash, Backslash, "n", Backslash, "n", Quote, "]">>,
     <<"{", Quote, Backslash, Quote, Quote, ":", Quote, Backslash, Backslash, Quote, "}">>,
     <<"[", Quote, Backslash, "n", Quote, ",", Quote, Backslash, "n", Quote, "]">>}

DocFamily ==
    {prefix \o <<Quote>> \o c \o <<Quote, "]">> :
        prefix \in DocPrefixes, c \in TextsUpTo(ContentAlphabet, MaxDocContentLen)}
    \cup ExtraDocs

\* what the clipboard may hold when the user pastes
ClipboardTexts == {<<"a">>, <<LineBreak>>, <<"a", LineBreak, Backslash, "n">>}

InitDoc ==
    /\ content = <<>>
    /\ located = NotRun
    /\ query = NotRun
    /\ docText \in {[d \in Documents |-> IF d = "A" THEN a ELSE DocNoEscape] : a \in DocFamily}
    /\ version = [d \in Documents |-> 1]
    /\ languageId = [d \in Documents |-> "json"]
    /\ activeEditor = "A"
    /\ isEnabled = TRUE
    /\ currentDecorations = InitialDecorations(activeEditor, docText, languageId)
    /\ documentStates = [d \in Documents |-> NoState]
    /\ isProcessingEdit = FALSE
    /\ pendingEdit = NoEdit
    /\ edits = 0
    /\ lastEvent = [kind |-> "none"]
    /\ openDocuments = Documents
    /\ disposed = FALSE

\* parseJsonSafely and the queries built on it, the lookup at every offset included
Scan ==
    /\ query = NotRun
    /\ query' = [op |-> "scan",
                 result |-> parseJsonSafely(docText["A"]),
                 stringRanges |-> findStringRanges(docText["A"]),
                 newlinePositions |-> extractNewlinePositions(docText["A"]),
                 detailedPositions |-> getDetailedNewlinePositions(docText["A"]),
                 atOffset |-> [o \in 0..Len(docText["A"]) |->
                                 getStringRangeAtPosition(docText["A"],
                                                          positionAt(docText["A"], o))]]
    /\ UNCHANGED <<content, located>>
    /\ UNCHANGED engineVars

\* the selection from offset s to offset e is transformed to visual form and back,
\* and copied and pasted back at its start
CopyPaste(s, e) ==
    /\ query = NotRun
    /\ s <= e /\ e <= Len(docText["A"])
    /\ \E selection \in {Range(positionAt(docText["A"], s), positionAt(docText["A"], e))} :
       \E fragment \in {getText(docText["A"], selection)} :
       \E visual \in {transformActualContentToVisual(docText["A"], fragment, selection)} :
       \E copied \in {handleCopyOperation(currentDecorations, docText["A"], selection)} :
          query' = [op |-> "copyPaste",
                    startOffset |-> s,
                    endOffset |-> e,
                    selection |-> selection,
                    fragment |-> fragment,
                    visual |-> visual,
                    actual |-> transformVisualContentToActual(docText["A"], visual, selection),
                    copied |-> copied,
                    pasted |-> handlePasteOperation(docText["A"], selection.start, copied)]
    /\ UNCHANGED <<content, located>>
    /\ UNCHANGED engineVars

\* the clipboard text is transformed to actual form, and pasted, at offset o
Paste(o, clipboardText) ==
    /\ query = NotRun
    /\ o <= Len(docText["A"])
    /\ \E position \in {positionAt(docText["A"], o)} :
          query' = [op |-> "paste",
                    offset |-> o,
                    position |-> position,
                    clipboardText |-> clipboardText,
                    actual |-> transformVisualContentToActual(docText["A"], clipboardText,
                                                              Range(position, position)),
                    pasted |-> handlePasteOperation(docText["A"], position, clipboardText)]
    /\ UNCHANGED <<content, located>>
    /\ UNCHANGED engineVars

\* the position at offset o is mapped to its visual position, and that one back
MapPosition(o) ==
    /\ query = NotRun
    /\ o <= Len(docText["A"])
    /\ \E actualPosition \in {positionAt(docText["A"], o)} :
       \E visual \in {transformActualToVisual(docText["A"], actualPosition)} :
          query' = [op |-> "map",
                    offset |-> o,
                    actualPosition |-> actualPosition,
                    visual |-> visual,
                    back |-> transformVisualToActual(docText["A"], visual)]
    /\ documentStates' = ensureDocumentState(documentStates, "A", docText["A"], version["A"])
    /\ UNCHANGED <<content, located, docText, version, languageId, activeEditor, isEnabled,
                   currentDecorations, isProcessingEdit, pendingEdit, edits, lastEvent,
                   openDocuments, disposed>>

NextDoc ==
    \/ Scan
    \/ \E s \in 0..Len(docText["A"]) : \E e \in 0..Len(docText["A"]) : CopyPaste(s, e)
    \/ \E o \in 0..Len(docText["A"]) : \E t \in ClipboardTexts : Paste(o, t)
    \/ \E o \in 0..Len(docText["A"]) : MapPosition(o)

SpecDoc == InitDoc /\ [][NextDoc]_vars

----------------------------------------------------------------------------
(* C1: the parity law of the locator, under SpecLocate *)

\* the number of consecutive backslashes immediately before offset i
PrecedingBackslashRun(text, i) ==
    CHOOSE k \in 0..i :
        /\ \A m \in (i - k)..(i - 1) : CharAt(text, m) = Backslash
        /\ (k = i \/ CharAt(text, i - k - 1) # Backslash)

\* the offsets the parity rule calls real newline escapes
RealEscapeOffsets(text) ==
    {i \in 0..(Len(text) - 2) :
        /\ CharAt(text, i) = Backslash
        /\ CharAt(text, i + 1) = "n"
        /\ PrecedingBackslashRun(text, i) % 2 = 0}

\* k backslashes followed by backslash-n
BackslashesThenEscape(k) == [m \in 1..(k + 2) |-> IF m = k + 2 THEN "n" ELSE Backslash]

\* C1 (parity law): the locator reports a backslash followed by n exactly when
\* an even number of consecutive backslashes precedes it, in ascending order and
\* once each; so 2k backslashes then backslash-n hold one occurrence, at 2k, and
\* 2k+1 backslashes then backslash-n hold none; containsNewlines agrees.
C1_ParityLaw ==
    located.op = "locate" =>
        LET p == located.positions IN
        /\ {p[m] : m \in 1..Len(p)} = RealEscapeOffsets(content)
        /\ \A m \in 1..(Len(p) - 1) : p[m] < p[m + 1]
        /\ located.contains = (RealEscapeOffsets(content) # {})
        /\ \A k \in 0..MaxContentLen :
              content = BackslashesThenEscape(k) =>
                  p = IF k % 2 = 0 THEN <<k>> ELSE <<>>

\* the locator has run on two backslashes followed by backslash-n and found offset 2
C1_Witness ==
    /\ located.op = "locate"
    /\ content = BackslashesThenEscape(2)
    /\ located.positions = <<2>>

----------------------------------------------------------------------------
(* C2: fail-closed scanning, under SpecDoc *)

\* C2 (fail-closed on invalid JSON): when the text of the document fails the
\* strict JSON parse, the scan returns isValid = FALSE with no span, and
\* findStringRanges, extractNewlinePositions and getDetailedNewlinePositions
\* return the empty list, and getStringRangeAtPosition returns null at every
\* position of the text.
C2_FailClosed ==
    (query.op = "scan" /\ ~JsonParses(docText["A"])) =>
        /\ query.result.isValid = FALSE
        /\ query.result.stringRanges = <<>>
        /\ query.stringRanges = <<>>
        /\ query.newlinePositions = <<>>
        /\ query.detailedPositions = <<>>
        /\ \A o \in DOMAIN query.atOffset : ~query.atOffset[o].found

\* the scan has run on ["\a"], which holds a quoted literal and is not JSON
C2_Witness ==
    /\ query.op = "scan"
    /\ docText["A"] = <<"[", Quote, Backslash, "a", Quote, "]">>
    /\ ~JsonParses(docText["A"])
    /\ query.result.isValid = FALSE

----------------------------------------------------------------------------
(* C4 to C6: the content transformer and the clipboard handlers, under SpecDoc *)

\* the offsets from s to e lie between the quotes of a literal of the text whose
\* hasNewlines flag is the one given
InsideSpan(text, s, e, hasNewlines) ==
    \E k \in 1..Len(findStringRanges(text)) :
        /\ findStringRanges(text)[k].hasNewlines = hasNewlines
        /\ offsetAt(text, findStringRanges(text)[k].start) < s
        /\ s <= e
        /\ e < offsetAt(text, findStringRanges(text)[k].end)

\* the offsets from s to e touch no literal of the text, quotes included
OutsideEverySpan(text, s, e) ==
    /\ s <= e
    /\ \A k \in 1..Len(findStringRanges(text)) :
          \/ e < offsetAt(text, findStringRanges(text)[k].start)
          \/ s >= offsetAt(text, findStringRanges(text)[k].end)

\* C4 (round-trip law): for a fragment of a valid document between the quotes of
\* a literal that holds a newline escape, toActual(toVisual(fragment)) is the
\* fragment, and pasting at its start what was copied from it gives the fragment.
C4_RoundTrip ==
    (/\ query.op = "copyPaste"
     /\ JsonParses(docText["A"])
     /\ InsideSpan(docText["A"], query.startOffset, query.endOffset, TRUE)) =>
        /\ query.actual = query.fragment
        /\ query.pasted = query.fragment

\* a newline escape was selected, became a line break, and came back as the escape
C4_Witness ==
    /\ query.op = "copyPaste"
    /\ JsonParses(docText["A"])
    /\ InsideSpan(docText["A"], query.startOffset, query.endOffset, TRUE)
    /\ query.fragment = <<"a", Backslash, "n">>
    /\ query.visual = <<"a", LineBreak>>
    /\ query.copied = <<"a", LineBreak>>
    /\ query.actual = query.fragment
    /\ query.pasted = query.fragment

\* str with each pair at one of the offsets replaced by one line break
RECURSIVE ReplaceLocated(_, _, _)
ReplaceLocated(str, i, offsets) ==
    IF i >= Len(str) THEN <<>>
    ELSE IF i \in offsets THEN <<LineBreak>> \o ReplaceLocated(str, i + 2, offsets)
    ELSE <<CharAt(str, i)>> \o ReplaceLocated(str, i + 1, offsets)

\* the number of line breaks of str
LineBreakCount(str) == Cardinality({k \in 1..Len(str) : str[k] = LineBreak})

\* offset o of the text does not split a backslash from the character it escapes
NotInsideEscape(text, o) == PrecedingBackslashRun(text, o) % 2 = 0

\* C5 (toVisual follows the locator): for a fragment of a valid document between
\* the quotes of a literal that holds a newline escape (a fragment that starts
\* and ends between escape sequences, not inside one), toVisual replaces exactly
\* the occurrences the parity locator finds in the fragment by one line break
\* each and leaves the rest, so it introduces as many line breaks as the locator
\* finds occurrences.
C5_ToVisualFollowsLocator ==
    (/\ query.op = "copyPaste"
     /\ JsonParses(docText["A"])
     /\ InsideSpan(docText["A"], query.startOffset, query.endOffset, TRUE)
     /\ NotInsideEscape(docText["A"], query.startOffset)
     /\ NotInsideEscape(docText["A"], query.endOffset)) =>
        /\ query.visual = ReplaceLocated(query.fragment, 0, RealEscapeOffsets(query.fragment))
        /\ LineBreakCount(query.visual) = Len(findNewlineEscapeSequences(query.fragment))

\* C6 (pass-through): toVisual, toActual, copy and paste return the fragment
\* unchanged when its range touches no literal of the document, or lies between
\* the quotes of a literal that holds no newline escape.
C6_PassThrough ==
    /\ (/\ query.op = "copyPaste"
        /\ \/ OutsideEverySpan(docText["A"], query.startOffset, query.endOffset)
           \/ InsideSpan(docText["A"], query.startOffset, query.endOffset, FALSE)) =>
           /\ query.visual = query.fragment
           /\ query.copied = query.fragment
    /\ (/\ query.op = "paste"
        /\ \/ OutsideEverySpan(docText["A"], query.offset, query.offset)
           \/ InsideSpan(docText["A"], query.offset, query.offset, FALSE)) =>
           /\ query.actual = query.clipboardText
           /\ query.pasted = query.clipboardText

----------------------------------------------------------------------------
(* C7 and C8: the coordinate mapper, under SpecDoc *)

\* the end offsets of the newline escapes of the text that end at or before offset o
EscapeEndsUpTo(text, o) == {i + 2 : i \in {j \in RealEscapeOffsets(text) : j + 2 <= o}}

SetMax(S) == CHOOSE m \in S : \A x \in S : x <= m

\* C7 as stated (actualToVisual): for a valid document and a target offset that
\* some newline escape precedes, the visual line is the number of newline escapes
\* that end at or before the target, and the visual column is the target offset
\* minus the end offset of the last of them.
C7_ActualToVisualAsStated ==
    (/\ query.op = "map"
     /\ JsonParses(docText["A"])
     /\ EscapeEndsUpTo(docText["A"], query.offset) # {}) =>
        /\ query.visual.line = Cardinality(EscapeEndsUpTo(docText["A"], query.offset))
        /\ query.visual.character
              = query.offset - SetMax(EscapeEndsUpTo(docText["A"], query.offset))

\* C7 amended (actualToVisual): for a valid document and a target position, the
\* visual line is the target's actual line plus the number of newline escapes
\* that end at or before the target offset; the visual column is the target
\* offset minus the end offset of the last of them, and the actual column when
\* there is none.
C7_ActualToVisual ==
    (query.op = "map" /\ JsonParses(docText["A"])) =>
        /\ query.visual.line
              = query.actualPosition.line
                + Cardinality(EscapeEndsUpTo(docText["A"], query.offset))
        /\ query.visual.character
              = IF EscapeEndsUpTo(docText["A"], query.offset) = {}
                THEN query.actualPosition.character
                ELSE query.offset - SetMax(EscapeEndsUpTo(docText["A"], query.offset))

\* in [LF"a\na"] the position of the second a, on actual line 1 right after the
\* escape, was mapped to visual line 2, column 0
C7_Witness ==
    /\ query.op = "map"
    /\ docText["A"] = <<"[", LineBreak, Quote, "a", Backslash, "n", "a", Quote, "]">>
    /\ query.offset = 6
    /\ query.actualPosition = Position(1, 4)
    /\ query.visual = Position(2, 0)

\* C8 (position round trip): for a valid document and an actual position that is
\* not strictly inside a two-character newline escape, visualToActual of
\* actualToVisual of the position is the position.
C8_PositionRoundTrip ==
    (/\ query.op = "map"
     /\ JsonParses(docText["A"])
     /\ \A i \in RealEscapeOffsets(docText["A"]) : query.offset # i + 1) =>
        query.back = query.actualPosition

----------------------------------------------------------------------------
(* C3, C9 and C10: the change handler and the decorations, under Spec *)

\* the last notification was a user mutation that inserted one bare line break
\* between the quotes of a literal holding a newline escape, in a valid JSON
\* document shown in the active editor with its decorations up to date, while no
\* counter-edit was in flight
EnterInDecoratedString ==
    /\ lastEvent.kind = "user"
    /\ lastEvent.change.text = <<LineBreak>>
    /\ lastEvent.startOffset = lastEvent.endOffset
    /\ JsonParses(lastEvent.textBefore)
    /\ InsideSpan(lastEvent.textBefore, lastEvent.startOffset, lastEvent.endOffset, TRUE)
    /\ lastEvent.decoratedBefore
    /\ lastEvent.path \notin {"skippedProcessingEdit", "skippedNotJson"}

\* C3 (Enter in a decorated string): when a user mutation inserts a bare line
\* break inside a literal that holds a newline escape, the engine submits a
\* counter-edit for it.
C3_EnterIsEscaped == EnterInDecoratedString => lastEvent.submitted

\* C9 (degraded state): whenever the text a change notification was processed on
\* fails the strict JSON parse, processing it submitted no counter-edit, whatever
\* mutations came before.
C9_DegradedState ==
    (lastEvent.kind # "none" /\ ~JsonParses(docText[lastEvent.document])) =>
        ~lastEvent.submitted

\* a line break typed into a decorated literal left the text invalid, and the
\* handler returned at the validity check without a counter-edit
C9_Witness ==
    /\ EnterInDecoratedString
    /\ ~JsonParses(docText[lastEvent.document])
    /\ lastEvent.path = "skippedInvalidJson"
    /\ ~lastEvent.submitted

\* C10 (no decoration on an invalid document): whenever the JSON document shown
\* in the active editor is invalid JSON, the decoration manager holds no active
\* decoration.
C10_NoDecorationOnInvalid ==
    (/\ activeEditor # NoDocument
     /\ isJsonDocument(activeEditor)
     /\ ~JsonParses(docText[activeEditor])) =>
        getActiveDecorationCount(currentDecorations) = 0

----------------------------------------------------------------------------
(* C11 to C15: the in-flight flag, the order of notifications and the      *)
(* stored document state, under Spec                                       *)

\* C11 (re-entrancy): the change notification caused by the engine's own
\* counter-edit returns at the test of the in-flight flag and submits no further
\* counter-edit.
C11_ReentrancySkipped ==
    lastEvent.kind = "counterEdit" =>
        /\ lastEvent.path = "skippedProcessingEdit"
        /\ ~lastEvent.submitted

\* a counter-edit was applied and its notification was skipped
C11_Witness ==
    /\ lastEvent.kind = "counterEdit"
    /\ lastEvent.path = "skippedProcessingEdit"
    /\ isProcessingEdit
    /\ pendingEdit.submitted /\ pendingEdit.answered

\* C12 (never stuck): whenever the in-flight flag is set, the applyEdit that set
\* it is still to be answered or its completion callback is still to run, so the
\* flag is cleared again (the callback is the only place that clears it),
\* whether the apply succeeds, is refused or fails.
C12_NeverStuck == ~isSynchronizationActive => pendingEdit.submitted

\* the stored state of document d and, when d is shown in the active editor, the
\* decorations are those a fresh scan of the current text of d gives
DerivedStateReflects(d) ==
    /\ documentStates[d].tracked
    /\ documentStates[d].originalContent = docText[d]
    /\ documentStates[d].version = version[d]
    /\ documentStates[d].mappings = calculateInitialMappings(docText[d])
    /\ activeEditor = d =>
          currentDecorations = applyDecorations(<<>>, TRUE, d, d, docText[d])

\* the last notification was a user mutation of a JSON document that came while
\* a counter-edit was in flight, it left valid JSON, and the completion callback
\* of the counter-edit has run since
NewerMutationThenCallback ==
    /\ lastEvent.kind = "user"
    /\ lastEvent.path = "skippedProcessingEdit"
    /\ isJsonDocument(lastEvent.document)
    /\ JsonParses(docText[lastEvent.document])
    /\ ~isProcessingEdit

\* C13 (a newer mutation is never lost): if a user mutation arrives after a
\* counter-edit was submitted and before its completion callback, then once the
\* callback has run the stored content, version, mappings and decorations are
\* those of the text the newer mutation left.
C13_NewerMutationReflected ==
    NewerMutationThenCallback => DerivedStateReflects(lastEvent.document)

\* the offsets from s to e lie within a literal of the text, its quotes included,
\* whose hasNewlines flag is the one given
WithinSpanRange(text, s, e, hasNewlines) ==
    \E k \in 1..Len(findStringRanges(text)) :
        /\ findStringRanges(text)[k].hasNewlines = hasNewlines
        /\ offsetAt(text, findStringRanges(text)[k].start) <= s
        /\ s <= e
        /\ e <= offsetAt(text, findStringRanges(text)[k].end)

\* C14 (when a counter-edit is submitted): a user mutation leads to a counter-edit
\* only if its inserted text holds a bare line break and its range lies in a
\* literal that holds a newline escape, in the text before the mutation or in the
\* text after it; so a pure deletion and an insertion outside such a literal lead
\* to none.
C14_CounterEditOnlyForEnter ==
    (lastEvent.kind = "user" /\ lastEvent.submitted) =>
        /\ includesLineBreak(lastEvent.change.text)
        /\ \/ WithinSpanRange(lastEvent.textBefore,
                              lastEvent.startOffset, lastEvent.endOffset, TRUE)
           \/ WithinSpanRange(ApplyChange(lastEvent.textBefore, lastEvent.change.range,
                                          lastEvent.change.text),
                              lastEvent.startOffset, lastEvent.startOffset, TRUE)

\* C15 (clean-state consistency): whenever no counter-edit is in flight and a
\* JSON document with a stored DocumentState is valid JSON, the stored version is
\* the document's version, the stored originalContent is its text, and the state
\* holds one mapping per located newline occurrence.
C15_CleanStateConsistent ==
    \A d \in Documents :
        (/\ isSynchronizationActive
         /\ ~pendingEdit.submitted
         /\ isJsonDocument(d)
         /\ documentStates[d].tracked
         /\ JsonParses(docText[d])) =>
            /\ documentStates[d].version = version[d]
            /\ documentStates[d].originalContent = docText[d]
            /\ Len(documentStates[d].mappings) = Len(getDetailedNewlinePositions(docText[d]))

----------------------------------------------------------------------------
(* C16 to C18: the stored mappings, the spans and the occurrences, under SpecDoc *)

\* C16 (mapping monotonicity): the mappings stored for a valid document have
\* strictly increasing actual offsets (the offset of actualPosition in the text and
\* the offset field alike) and non-decreasing visual line numbers.
C16_MappingMonotonicity ==
    \A d \in Documents :
        (documentStates[d].tracked /\ JsonParses(documentStates[d].originalContent)) =>
            \A k \in 1..(Len(documentStates[d].mappings) - 1) :
                /\ offsetAt(documentStates[d].originalContent,
                            documentStates[d].mappings[k].actualPosition)
                      < offsetAt(documentStates[d].originalContent,
                                 documentStates[d].mappings[k + 1].actualPosition)
                /\ documentStates[d].mappings[k].offset
                      < documentStates[d].mappings[k + 1].offset
                /\ documentStates[d].mappings[k].visualPosition.line
                      <= documentStates[d].mappings[k + 1].visualPosition.line

\* the state stored for ["\n\n"] holds two mappings
C16_Witness ==
    /\ documentStates["A"].tracked
    /\ docText["A"] = <<"[", Quote, Backslash, "n", Backslash, "n", Quote, "]">>
    /\ Len(documentStates["A"].mappings) = 2
    /\ documentStates["A"].mappings[2].offset = 2

\* the string literals of a JSON text by the grammar's lexical rule: outside a
\* literal a quote opens one; inside, a backslash takes the next character with
\* it and a quote closes the literal.  open is -1 outside a literal.
RECURSIVE LiteralScan(_, _, _, _)
LiteralScan(text, i, open, literals) ==
    IF i >= Len(text) THEN literals
    ELSE IF open = -1
         THEN LiteralScan(text, i + 1, IF CharAt(text, i) = Quote THEN i ELSE -1, literals)
         ELSE IF CharAt(text, i) = Backslash THEN LiteralScan(text, i + 2, open, literals)
         ELSE IF CharAt(text, i) = Quote
              THEN LiteralScan(text, i + 1, -1, Append(literals, [open |-> open, close |-> i]))
              ELSE LiteralScan(text, i + 1, open, literals)

StringLiterals(text) == LiteralScan(text, 0, -1, <<>>)

\* the spans are the literals, one for one and in order
SpansAreLiterals(text, spans, literals) ==
    /\ Len(spans) = Len(literals)
    /\ \A k \in 1..Len(spans) :
          /\ offsetAt(text, spans[k].start) = literals[k].open
          /\ offsetAt(text, spans[k].end) = literals[k].close + 1
          /\ isBefore(spans[k].start, spans[k].end)
          /\ spans[k].content = Substring(text, literals[k].open + 1, literals[k].close)
    /\ \A k \in 1..(Len(spans) - 1) : ~isAfter(spans[k].end, spans[k + 1].start)

\* C17 (one span per literal): for a valid JSON text the scan returns one span
\* per string literal, keys and values alike, in document order and without
\* overlap, each with start before end and with the raw text between its quotes
\* as content.
C17_OneSpanPerLiteral ==
    (query.op = "scan" /\ JsonParses(docText["A"])) =>
        SpansAreLiterals(docText["A"], query.stringRanges, StringLiterals(docText["A"]))

\* the scan of {"\"":"\\"} gives two spans, of contents \" and \\
C17_Witness ==
    /\ query.op = "scan"
    /\ docText["A"] = <<"{", Quote, Backslash, Quote, Quote, ":",
                        Quote, Backslash, Backslash, Quote, "}">>
    /\ query.result.isValid
    /\ Len(query.stringRanges) = 2
    /\ query.stringRanges[1].content = <<Backslash, Quote>>
    /\ query.stringRanges[2].content = <<Backslash, Backslash>>

\* the occurrences listed before the k-th that have the same owner span
EarlierInSameSpan(occurrences, k) ==
    {j \in 1..(k - 1) : /\ occurrences[j].stringRange = occurrences[k].stringRange
                         /\ occurrences[j].offset < occurrences[k].offset}

\* C18 (occurrences): every occurrence getDetailedNewlinePositions reports lies
\* between the quotes of its owner span and ends two characters after its offset;
\* its indexInString is its rank, from 0, among the occurrences of the same span
\* in ascending offset; and beforeText, the two-character escape and afterText
\* make the owner span's content.
C18_OccurrenceFields ==
    (query.op = "scan" /\ JsonParses(docText["A"])) =>
        \A k \in 1..Len(query.detailedPositions) :
            /\ query.detailedPositions[k].endOffset = query.detailedPositions[k].offset + 2
            /\ offsetAt(docText["A"], query.detailedPositions[k].stringRange.start)
                  < query.detailedPositions[k].offset
            /\ query.detailedPositions[k].endOffset
                  < offsetAt(docText["A"], query.detailedPositions[k].stringRange.end)
            /\ \E m \in 1..Len(query.stringRanges) :
                  query.stringRanges[m] = query.detailedPositions[k].stringRange
            /\ query.detailedPositions[k].indexInString
                  = Cardinality(EarlierInSameSpan(query.detailedPositions, k))
            /\ \A j \in 1..(k - 1) :
                  query.detailedPositions[j].stringRange
                      = query.detailedPositions[k].stringRange =>
                  query.detailedPositions[j].offset < query.detailedPositions[k].offset
            /\ query.detailedPositions[k].beforeText \o <<Backslash, "n">>
                      \o query.detailedPositions[k].afterText
                  = query.detailedPositions[k].stringRange.content

\* the scan of ["\n","\n"] reports two occurrences, each the first of its span
C18_Witness ==
    /\ query.op = "scan"
    /\ docText["A"] = <<"[", Quote, Backslash, "n", Quote, ",",
                        Quote, Backslash, "n", Quote, "]">>
    /\ Len(query.detailedPositions) = 2
    /\ query.detailedPositions[2].offset = 7
    /\ query.detailedPositions[2].indexInString = 0

----------------------------------------------------------------------------
(* SpecCap: the scan of a valid JSON text under its two caps.  The caps of *)
(* the code, maxFileSize and maxStrings, are far beyond any text that can  *)
(* be enumerated; the scanner treats them as plain numbers, so it is run   *)
(* here with small caps on arrays of a few string literals.                *)

MaxCharacterCap == 8

MaxLiteralCap == 2

MaxCapLiterals == 3

\* what a literal holds: nothing, a, \n, \" or \\
CapContents ==
    {<<>>, <<"a">>, <<Backslash, "n">>, <<Backslash, Quote>>, <<Backslash, Backslash>>}

RECURSIVE ArrayElements(_, _)
ArrayElements(contents, k) ==
    IF k > Len(contents) THEN <<>>
    ELSE (IF k > 1 THEN <<",">> ELSE <<>>)
            \o <<Quote>> \o contents[k] \o <<Quote>> \o ArrayElements(contents, k + 1)

\* the JSON arrays of one to MaxCapLiterals string literals
CapDocs ==
    {<<"[">> \o ArrayElements(contents, 1) \o <<"]">> :
        contents \in UNION {[1..k -> CapContents] : k \in 1..MaxCapLiterals}}

InitCap ==
    /\ content \in CapDocs
    /\ located = NotRun
    /\ query = NotRun
    /\ EngineAtRest

\* the scan parseJsonSafely runs on a text that parses, under the given caps, and
\* the scan of the same text with both caps out of reach
ScanWithCaps(characterCap, literalCap) ==
    /\ query = NotRun
    /\ JsonParses(content)
    /\ query' = [op |-> "scanWithCaps",
                 characterCap |-> characterCap,
                 literalCap |-> literalCap,
                 stringRanges |-> extractStringRangesCapped(content, characterCap, literalCap),
                 uncapped |-> extractStringRangesCapped(content, Len(content), Len(content))]
    /\ UNCHANGED <<content, located>>
    /\ UNCHANGED engineVars

NextCap ==
    \E characterCap \in 1..MaxCharacterCap : \E literalCap \in 1..MaxLiteralCap :
        ScanWithCaps(characterCap, literalCap)

SpecCap == InitCap /\ [][NextCap]_vars

----------------------------------------------------------------------------
(* C19 and C20: the caps of the scan, under SpecCap *)

\* C19 (hard caps): the scan of a valid text returns no more spans than the
\* literal cap and no span that ends beyond the character cap, whichever path
\* the scanner takes.
C19_ScanWithinCaps ==
    query.op = "scanWithCaps" =>
        /\ Len(query.stringRanges) <= query.literalCap
        /\ Len(content) > query.characterCap =>
              \A k \in 1..Len(query.stringRanges) :
                  offsetAt(content, query.stringRanges[k].end) <= query.characterCap

\* C20 (truncation never corrupts): the spans a capped scan returns are the
\* first spans of the uncapped scan of the same text, with the same ranges,
\* contents and flags.
C20_TruncationIsPrefix ==
    query.op = "scanWithCaps" =>
        /\ Len(query.stringRanges) <= Len(query.uncapped)
        /\ \A k \in 1..Len(query.stringRanges) : query.stringRanges[k] = query.uncapped[k]

\* the character cap cuts ["a","\"",""] inside its second literal, after the
\* escaped quote: one span is returned out of three
C20_Witness ==
    /\ query.op = "scanWithCaps"
    /\ content = <<"[", Quote, "a", Quote, ",", Quote, Backslash, Quote, Quote, ",",
                   Quote, Quote, "]">>
    /\ query.characterCap = 8
    /\ Len(query.uncapped) = 3
    /\ Len(query.stringRanges) = 1
    /\ query.stringRanges[1].content = <<"a">>

----------------------------------------------------------------------------
(* C21: a document whose language is neither json nor jsonc never gets a   *)
(* document state (getDocumentState returns null for it), and no change    *)
(* notification for it hands a counter-edit to applyEdit.                  *)

C21_NonJsonUntouched ==
    \A d \in Documents :
        languageId[d] \notin {"json", "jsonc"} =>
            /\ ~documentStates[d].tracked
            /\ getDocumentState(d) = NoState
            /\ pendingEdit.submitted => pendingEdit.document # d
            /\ (lastEvent.kind # "none" /\ lastEvent.document = d) => ~lastEvent.submitted

\* a line break typed over a decorated range of a plaintext document: the
\* notification is dropped at the language test
C21_Witness ==
    /\ lastEvent.kind = "user"
    /\ languageId[lastEvent.document] \notin {"json", "jsonc"}
    /\ lastEvent.path = "skippedNotJson"
    /\ includesLineBreak(lastEvent.change.text)
    /\ getDecorationsInRange(currentDecorations, lastEvent.change.range) # <<>>

----------------------------------------------------------------------------
(* SpecLife: the life of the extension's components around two open JSON   *)
(* documents: documents are closed and opened again, formatting is toggled *)
(* off and on, applyDecorations and refresh are called, the user changes a *)
(* document, and deactivate() disposes of the components, possibly while a *)
(* counter-edit is in flight.                                              *)

MaxLifeEdits == 1

\* ["\n\n"]
DocTwoEscapes == <<"[", Quote, Backslash, "n", Backslash, "n", Quote, "]">>

InitLife ==
    /\ content = <<>>
    /\ located = NotRun
    /\ query = NotRun
    /\ docText = [d \in Documents |-> IF d = "A" THEN DocTwoEscapes ELSE DocOneEscape]
    /\ version = [d \in Documents |-> 1]
    /\ languageId = [d \in Documents |-> "json"]
    /\ activeEditor \in Documents \cup {NoDocument}
    /\ isEnabled = TRUE
    /\ currentDecorations = InitialDecorations(activeEditor, docText, languageId)
    /\ documentStates = [d \in Documents |-> NoState]
    /\ isProcessingEdit = FALSE
    /\ pendingEdit = NoEdit
    /\ edits = MaxEdits - MaxLifeEdits
    /\ lastEvent = [kind |-> "none"]
    /\ openDocuments = Documents
    /\ disposed = FALSE

\* onDidOpenTextDocument: a closed document is opened
OpenDocument(d) ==
    /\ ~disposed
    /\ d \notin openDocuments
    /\ openDocuments' = openDocuments \cup {d}
    /\ documentStates' =
          IF isJsonDocument(d)
          THEN [documentStates EXCEPT ![d] = initializeDocumentState(docText[d], version[d])]
          ELSE documentStates
    /\ UNCHANGED <<content, located, query, docText, version, languageId, activeEditor,
                   isEnabled, currentDecorations, isProcessingEdit, pendingEdit, edits,
                   lastEvent, disposed>>

\* onDidCloseTextDocument: a document no editor shows is closed
CloseDocument(d) ==
    /\ ~disposed
    /\ d \in openDocuments
    /\ activeEditor # d
    /\ openDocuments' = openDocuments \ {d}
    /\ documentStates' = cleanupDocumentState(documentStates, d)
    /\ UNCHANGED <<content, located, query, docText, version, languageId, activeEditor,
                   isEnabled, currentDecorations, isProcessingEdit, pendingEdit, edits,
                   lastEvent, disposed>>

\* deactivate(): the decoration manager and the synchronizer are disposed of
Deactivate ==
    /\ ~disposed
    /\ disposed' = TRUE
    /\ currentDecorations' = clearDecorations(currentDecorations)
    /\ documentStates' = dispose(documentStates)
    /\ UNCHANGED <<content, located, query, docText, version, languageId, activeEditor,
                   isEnabled, isProcessingEdit, pendingEdit, edits, lastEvent, openDocuments>>

\* the toggle command, or any call of setEnabled
SetEnabled(enabled) ==
    /\ ~disposed
    /\ isEnabled' = enabled
    /\ \E text \in {IF activeEditor = NoDocument THEN <<>> ELSE docText[activeEditor]} :
          currentDecorations' =
              setEnabled(currentDecorations, enabled, activeEditor, text, languageId)
    /\ UNCHANGED <<content, located, query, docText, version, languageId, activeEditor,
                   documentStates, isProcessingEdit, pendingEdit, edits, lastEvent,
                   openDocuments, disposed>>

\* a call of applyDecorations for an open document; query records the call
ApplyDecorations(d) ==
    /\ ~disposed
    /\ d \in openDocuments
    /\ \E after \in {applyDecorations(currentDecorations, isEnabled, activeEditor, d,
                                      docText[d])} :
          /\ currentDecorations' = after
          /\ query' = [op |-> "applyDecorations",
                       document |-> d,
                       editorDocument |-> activeEditor,
                       enabled |-> isEnabled,
                       text |-> docText[d],
                       before |-> currentDecorations,
                       after |-> after]
    /\ UNCHANGED <<content, located, docText, version, languageId, activeEditor, isEnabled,
                   documentStates, isProcessingEdit, pendingEdit, edits, lastEvent,
                   openDocuments, disposed>>

\* a call of refresh(), as the search handler makes after find and replace
Refresh ==
    /\ ~disposed
    /\ \E text \in {IF activeEditor = NoDocument THEN <<>> ELSE docText[activeEditor]} :
       \E after \in {refresh(currentDecorations, isEnabled, activeEditor, text, languageId)} :
          /\ currentDecorations' = after
          /\ query' = [op |-> "refresh",
                       editorDocument |-> activeEditor,
                       enabled |-> isEnabled,
                       before |-> currentDecorations,
                       after |-> after]
    /\ UNCHANGED <<content, located, docText, version, languageId, activeEditor, isEnabled,
                   documentStates, isProcessingEdit, pendingEdit, edits, lastEvent,
                   openDocuments, disposed>>

NextLife ==
    \/ \E d \in Documents : \E s \in 0..MaxDocLen : \E e \in 0..MaxDocLen :
          \E t \in InsertTexts : UserChange(d, s, e, t)
    \/ ApplyEditApplied
    \/ ApplyEditNotApplied
    \/ ApplyEditFails
    \/ ApplyEditCallback
    \/ \E e \in Documents \cup {NoDocument} : ChangeActiveEditor(e)
    \/ \E d \in Documents : OpenDocument(d)
    \/ \E d \in Documents : CloseDocument(d)
    \/ Deactivate

SpecLife == InitLife /\ [][NextLife]_vars

\* SpecDecorate: the same documents, with the calls made of the decoration manager
NextDecorate ==
    \/ \E d \in Documents : \E s \in 0..MaxDocLen : \E e \in 0..MaxDocLen :
          \E t \in InsertTexts : UserChange(d, s, e, t)
    \/ ApplyEditApplied
    \/ ApplyEditNotApplied
    \/ ApplyEditFails
    \/ ApplyEditCallback
    \/ \E e \in Documents \cup {NoDocument} : ChangeActiveEditor(e)
    \/ \E enabled \in BOOLEAN : SetEnabled(enabled)
    \/ \E d \in Documents : ApplyDecorations(d)
    \/ Refresh

SpecDecorate == InitLife /\ [][NextDecorate]_vars

----------------------------------------------------------------------------
(* C22: the registry of document states follows the documents' life: once  *)
(* a document is closed the registry holds no entry for it until it is     *)
(* opened again, and once the synchronizer is disposed of the registry is  *)
(* empty.                                                                  *)

C22_RegistryFollowsLife ==
    /\ \A d \in Documents \ openDocuments : ~documentStates[d].tracked
    /\ disposed => \A d \in Documents : ~documentStates[d].tracked

----------------------------------------------------------------------------
(* C23: after applyDecorations has run on the active editor's document,    *)
(* with formatting enabled and a text that is valid JSON, the manager      *)
(* holds exactly one active decoration per real newline escape of the      *)
(* text, each over the two characters of its escape, and nothing else:     *)
(* no decoration of an earlier application remains.  applyDecorations runs *)
(* in a direct call, in refresh, in setEnabled(true), when the editor      *)
(* changes, and in updateDecorations after a processed notification.       *)

ExactDecorations(decorations, text) ==
    /\ Len(decorations) = Cardinality(RealEscapeOffsets(text))
    /\ getActiveDecorationCount(decorations) = Len(decorations)
    /\ \A k \in 1..Len(decorations) :
          \E o \in RealEscapeOffsets(text) :
              decorations[k].range = Range(positionAt(text, o), positionAt(text, o + 2))
    /\ \A k \in 1..Len(decorations) : \A j \in 1..(k - 1) :
          decorations[j].range # decorations[k].range

AppliedOnActive ==
    /\ activeEditor' \in Documents
    /\ isEnabled'
    /\ isJsonDocument(activeEditor')
    /\ JsonParses(docText'[activeEditor'])
    /\ \/ /\ query' # query
          /\ query'.op = "applyDecorations"
          /\ query'.document = activeEditor'
       \/ /\ query' # query
          /\ query'.op = "refresh"
       \/ /\ lastEvent' # lastEvent
          /\ lastEvent'.path = "processed"
          /\ lastEvent'.document = activeEditor'
       \/ activeEditor' # activeEditor
       \/ isEnabled' # isEnabled

C23_OneDecorationPerEscape ==
    [][AppliedOnActive => ExactDecorations(currentDecorations', docText'[activeEditor'])]_vars

\* the user deletes the first backslash of ["\n\n"] in the active editor: the two
\* decorations of the earlier application give way to the one of ["n\n"]
C23_Witness ==
    /\ lastEvent.kind = "user"
    /\ lastEvent.path = "processed"
    /\ lastEvent.document = activeEditor
    /\ isEnabled
    /\ lastEvent.decoratedBefore
    /\ Cardinality(RealEscapeOffsets(lastEvent.textBefore)) = 2
    /\ Cardinality(RealEscapeOffsets(docText[activeEditor])) = 1
    /\ Len(currentDecorations) = 1
    /\ currentDecorations[1].range = Range(Position(0, 3), Position(0, 5))

----------------------------------------------------------------------------
(* C24: while formatting is disabled the manager holds no active           *)
(* decoration, whatever calls of applyDecorations and refresh and whatever *)
(* change notifications come; as isEnabled only becomes true in            *)
(* setEnabled(true), decorations reappear only after that call.            *)

C24_NoneWhileDisabled ==
    ~isEnabled => getActiveDecorationCount(currentDecorations) = 0

\* formatting is disabled, the editor shows a valid document with a newline
\* escape, and applyDecorations has been called for it
C24_Witness ==
    /\ ~isEnabled
    /\ query.op = "applyDecorations"
    /\ ~query.enabled
    /\ query.document = activeEditor
    /\ query.text = docText[activeEditor]
    /\ JsonParses(query.text)
    /\ RealEscapeOffsets(query.text) # {}
    /\ lastEvent.kind = "user"
    /\ lastEvent.path = "processed"

----------------------------------------------------------------------------
(* C25: after applyDecorations has been called for a document that is not  *)
(* the one the active editor shows, the manager holds no active            *)
(* decoration, whatever it held before the call.                           *)

C25_NotActiveClears ==
    (query.op = "applyDecorations" /\ query.document # query.editorDocument) =>
        getActiveDecorationCount(query.after) = 0

----------------------------------------------------------------------------
(* SpecInput: containsNewlines called with every JavaScript value a caller *)
(* may hand it in place of a string: a string of bounded length, null or   *)
(* undefined.  content holds the argument and located the call's outcome.  *)

MaxInputLen == 4

JsNull == [type |-> "null"]

JsUndefined == [type |-> "undefined"]

JsString(str) == [type |-> "string", value |-> str]

\* the outcome of containsNewlines(argument): findNewlineEscapeSequences reads
\* text.length first, which throws a TypeError for null and for undefined
containsNewlinesCall(argument) ==
    IF argument.type \in {"null", "undefined"}
    THEN [outcome |-> "threw", error |-> "TypeError"]
    ELSE [outcome |-> "returned", value |-> containsNewlines(argument.value)]

InitInput ==
    /\ content \in {JsString(str) : str \in TextsUpTo(ContentAlphabet, MaxInputLen)}
                      \cup {JsNull, JsUndefined}
    /\ located = NotRun
    /\ query = NotRun
    /\ EngineAtRest

CallContainsNewlines ==
    /\ located = NotRun
    /\ located' = [op |-> "containsNewlines", result |-> containsNewlinesCall(content)]
    /\ UNCHANGED <<content, query>>
    /\ UNCHANGED engineVars

NextInput == CallContainsNewlines

SpecInput == InitInput /\ [][NextInput]_vars

\* C26: containsNewlines returns false, and does not throw, when it is handed
\* the empty string, null or undefined.
C26_FalseForEmptyNullUndefined ==
    (located.op = "containsNewlines" /\ content \in {JsString(<<>>), JsNull, JsUndefined}) =>
        located.result = [outcome |-> "returned", value |-> FALSE]

----------------------------------------------------------------------------
(* C27: for a valid JSON document the basic scan (extractNewlinePositions) *)
(* and the detailed scan (getDetailedNewlinePositions) report the same     *)
(* positions in the same order; these are the offsets the parity locator   *)
(* finds in each span's content, moved to document coordinates, span after *)
(* span; and a span has hasNewlines exactly when it owns an occurrence.    *)

\* the locator's offsets in the content of each span, in document coordinates
LocatorOffsets(text, spans) ==
    Flatten([k \in 1..Len(spans) |->
                LET shifted(located_k, contentStart) ==
                        [m \in 1..Len(located_k) |-> contentStart + located_k[m]]
                IN  shifted(findNewlineEscapeSequences(spans[k].content),
                            offsetAt(text, spans[k].start) + 1)])

C27_ScansAgreeWithLocator ==
    (query.op = "scan" /\ JsonParses(docText["A"])) =>
        /\ Len(query.newlinePositions) = Len(query.detailedPositions)
        /\ \A k \in 1..Len(query.detailedPositions) :
              /\ query.newlinePositions[k].position = query.detailedPositions[k].position
              /\ query.newlinePositions[k].stringRange = query.detailedPositions[k].stringRange
        /\ [k \in 1..Len(query.detailedPositions) |-> query.detailedPositions[k].offset]
              = LocatorOffsets(docText["A"], query.stringRanges)
        /\ [k \in 1..Len(query.newlinePositions) |->
                offsetAt(docText["A"], query.newlinePositions[k].position)]
              = LocatorOffsets(docText["A"], query.stringRanges)
        /\ \A m \in 1..Len(query.stringRanges) :
              query.stringRanges[m].hasNewlines
                  <=> \E k \in 1..Len(query.detailedPositions) :
                         query.detailedPositions[k].stringRange = query.stringRanges[m]

\* the scan of ["\\n\n"]: one occurrence, at offset 5, after an escaped backslash
\* and an n that are none
C27_Witness ==
    /\ query.op = "scan"
    /\ docText["A"] = <<"[", Quote, Backslash, Backslash, "n", Backslash, "n", Quote, "]">>
    /\ Len(query.newlinePositions) = 1
    /\ Len(query.detailedPositions) = 1
    /\ query.detailedPositions[1].offset = 5
    /\ query.newlinePositions[1].position = Position(0, 5)
    /\ query.stringRanges[1].hasNewlines

----------------------------------------------------------------------------
(* C28: a counter-edit in flight for one document does not make the        *)
(* handler skip the change notifications of another open JSON document:    *)
(* a notification for a JSON document that arrives while the pending       *)
(* counter-edit belongs to a different document is not dropped at the      *)
(* isProcessingEdit test.                                                  *)

C28_OtherDocumentNotSkipped ==
    (/\ lastEvent.kind = "user"
     /\ isJsonDocument(lastEvent.document)
     /\ pendingEdit.submitted
     /\ pendingEdit.document # lastEvent.document) =>
        lastEvent.path # "skippedProcessingEdit"

----------------------------------------------------------------------------
(* C29: the decorations consulted to decide whether a change of a document *)
(* touches a decorated area were computed from that document's text.  The  *)
(* decorations are computed for the document the active editor shows, so   *)
(* a change is treated as an edit of a decorated area (and a counter-edit  *)
(* is submitted for it) only if the active editor shows its document when  *)
(* the notification comes: never on account of decorations of another      *)
(* document or of decorations kept from an earlier editor.                 *)

C29_OwnDecorationsConsulted ==
    [][(/\ edits' # edits
        /\ lastEvent'.kind = "user"
        /\ lastEvent'.submitted) => activeEditor = lastEvent'.document]_vars

----------------------------------------------------------------------------
(* C30: in a document of several lines, when no newline escape starts      *)
(* before the target on the target's own line, actualToVisual keeps the    *)
(* target's column and moves only its line, down by the number of newline  *)
(* escapes that end at or before the target.                               *)

NoEscapeBeforeOnLine(text, o) ==
    \A i \in RealEscapeOffsets(text) :
        positionAt(text, i).line = positionAt(text, o).line => i >= o

C30_ColumnKeptAcrossLines ==
    (/\ query.op = "map"
     /\ JsonParses(docText["A"])
     /\ lineCount(docText["A"]) > 1
     /\ NoEscapeBeforeOnLine(docText["A"], query.offset)) =>
        /\ query.visual.character = query.actualPosition.character
        /\ query.visual.line = query.actualPosition.line
                                  + Cardinality(EscapeEndsUpTo(docText["A"], query.offset))

====
